---- MODULE Spec2Model ----
(***************************************************************************)
(* photo-farm: the thumbnail cache pipeline.                               *)
(*                                                                         *)
(* The UI thread (MyWindowHandler: on_resize, on_draw, on_key_down) and    *)
(* the background threads spawned by on_resize (update_cache) share the    *)
(* sqlite connection behind Arc<Mutex<Connection>>, the progress counter   *)
(* (AtomicI32) and the user-event sender behind its own Mutex.             *)
(***************************************************************************)
EXTENDS Integers, Sequences, FiniteSets, TLC

\* ------------------------------------------------------------- bounds
\* Number of photos in the folder (length of image_file_names).
MaxPhotos == 2
\* Number of key events delivered to on_key_down and on_key_up.
MaxKeys == 1
\* rows in the table when the db functions are exercised alone
MaxRows == 2

\* ---------------------------------------------------------- constants
\* resolution_ok: screen_resolution.x > 800
ResolutionThreshold == 800
\* let is_starred: i64 = 0 in insert_image
NotStarred == 0
\* the id of the UI thread; the threads on_resize spawns follow
UiThread == 0

\* ------------------------------------------------------------- values
None == <<>>
Some(v) == <<v>>

FileNames == <<"A.JPG", "B.JPG", "C.JPG", "D.JPG", "E.JPG">>

\* UVec2 values the window system reports: the generic 800x600 of the
\* first on_resize, and two real display resolutions
DefaultResolution == [x |-> 800, y |-> 600]

Resolutions ==
    { DefaultResolution, [x |-> 1024, y |-> 768], [x |-> 1920, y |-> 1080] }

\* the threads on_resize can spawn: one per resize event with an accepted
\* resolution
Threads == { 1, 2 }

\* a gate that lets the generic 800x600 through
resolution_ok_from_800(screen_resolution_) ==
    screen_resolution_.x >= ResolutionThreshold

\* resolution_ok: screen_resolution.x > 800
resolution_ok(screen_resolution_) == screen_resolution_.x > ResolutionThreshold

\* ------------------------------------------------- loader and codec
\* load_image: the decoded, orientation-corrected source photo
load_image(name) == [file |-> name]

\* resize_jpg: the image scaled to `size` and encoded as jpeg (quality 90);
\* the bytes are a function of the source image and the target size
resize_jpg(img, size) == [jpeg_of |-> img.file, w |-> size.x, h |-> size.y]

\* ---------------------------------------------------------- the table
\* One row of table photos: name, x_res, y_res, resized, is_starred,
\* date_time.  resized is None for a NULL blob.
Row(name, size, resized, is_starred_, date_time) ==
    [ name |-> name, x_res |-> size.x, y_res |-> size.y,
      resized |-> resized, is_starred |-> is_starred_, date_time |-> date_time ]

\* WHERE name = :name AND x_res = :x_res AND y_res = :y_res
KeyMatches(r, name, size) ==
    r.name = name /\ r.x_res = size.x /\ r.y_res = size.y

Count(rows, name, size) ==
    Cardinality({ i \in 1 .. Len(rows) : KeyMatches(rows[i], name, size) })

\* the query without the x_res and y_res conditions
photo_exists_any_size(rows, name, size) ==
    \E i \in 1 .. Len(rows) : rows[i].name = name

\* the query with the condition of try_get_image_from_db: NOT resized IS NULL
photo_exists_not_null(rows, name, size) ==
    \E i \in 1 .. Len(rows) :
        KeyMatches(rows[i], name, size) /\ rows[i].resized # None

\* db::photo_exists: SELECT 1 ... ; State::Row => true, State::Done => false
photo_exists(rows, name, size) ==
    \E i \in 1 .. Len(rows) : KeyMatches(rows[i], name, size)

\* the query without the x_res and y_res conditions
try_get_image_from_db_by_name(rows, name, size) ==
    LET hits == { i \in 1 .. Len(rows) :
                    rows[i].name = name /\ rows[i].resized # None }
    IN  IF hits = {} THEN None
        ELSE LET first == CHOOSE i \in hits : \A j \in hits : i <= j
             IN  Some([ resized |-> rows[first].resized[1],
                        is_starred |-> rows[first].is_starred = 1 ])

\* a reader that keeps the last row of the result instead of the first
try_get_image_from_db_last(rows, name, size) ==
    LET hits == { i \in 1 .. Len(rows) :
                    KeyMatches(rows[i], name, size) /\ rows[i].resized # None }
    IN  IF hits = {} THEN None
        ELSE LET last == CHOOSE i \in hits : \A j \in hits : i >= j
             IN  Some([ resized |-> rows[last].resized[1],
                        is_starred |-> rows[last].is_starred = 1 ])

\* db::try_get_image_from_db: the first row of the key whose blob is not NULL
try_get_image_from_db(rows, name, size) ==
    LET hits == { i \in 1 .. Len(rows) :
                    KeyMatches(rows[i], name, size) /\ rows[i].resized # None }
    IN  IF hits = {} THEN None
        ELSE LET first == CHOOSE i \in hits : \A j \in hits : i <= j
             IN  Some([ resized |-> rows[first].resized[1],
                        is_starred |-> rows[first].is_starred = 1 ])

\* an insert that keeps the key unique (INSERT OR IGNORE on a unique key)
insert_image_unique(rows, name, size, resized, date_time) ==
    IF \E i \in 1 .. Len(rows) : KeyMatches(rows[i], name, size)
    THEN rows
    ELSE Append(rows, Row(name, size, Some(resized), NotStarred, date_time))

\* an insert that copies the star of the photo's other rows
insert_image_keep_star(rows, name, size, resized, date_time) ==
    Append(rows, Row(name, size, Some(resized),
                     IF \E i \in 1 .. Len(rows) :
                            rows[i].name = name /\ rows[i].is_starred = 1
                     THEN 1 ELSE NotStarred,
                     date_time))

\* an insert that replaces the rows of the key (INSERT OR REPLACE on a
\* unique key)
insert_image_replace(rows, name, size, resized, date_time) ==
    Append(SelectSeq(rows, LAMBDA r : ~KeyMatches(r, name, size)),
           Row(name, size, Some(resized), NotStarred, date_time))

\* db::insert_image: INSERT INTO photos VALUES (...), is_starred = 0
insert_image(rows, name, size, resized, date_time) ==
    Append(rows, Row(name, size, Some(resized), NotStarred, date_time))

\* an update that stops after the first row of the photo
update_image_is_starred_first(rows, name, flag) ==
    LET hits == { i \in 1 .. Len(rows) : rows[i].name = name }
    IN  [ i \in 1 .. Len(rows) |->
            IF i \in hits /\ \A j \in hits : i <= j
            THEN [ rows[i] EXCEPT !.is_starred = IF flag THEN 1 ELSE 0 ]
            ELSE rows[i] ]

\* db::update_image_is_starred: UPDATE photos SET is_starred WHERE name
update_image_is_starred(rows, name, flag) ==
    [ i \in 1 .. Len(rows) |->
        IF rows[i].name = name
        THEN [ rows[i] EXCEPT !.is_starred = IF flag THEN 1 ELSE 0 ]
        ELSE rows[i] ]

\* the query without its WHERE clause
get_starred_image_names_all(rows) ==
    { rows[i].name : i \in 1 .. Len(rows) }

\* db::get_starred_image_names: SELECT name WHERE is_starred = TRUE
get_starred_image_names(rows) ==
    { rows[i].name : i \in { j \in 1 .. Len(rows) : rows[j].is_starred = 1 } }


\* ------------------------------------------------------- metadata
\* metadata::get_metadata: the exif DateTime of each file, None when the
\* file has no exif segment
get_metadata(name) ==
    CASE name = "A.JPG" -> Some([ date_time |-> Some("2021-03-04 05:06:07") ])
      [] name = "B.JPG" -> Some([ date_time |-> Some("2021:03:04 05:06:07") ])
      [] name = "C.JPG" -> Some([ date_time |-> None ])
      [] OTHER -> None

\* metadata::string_to_unix_timestamp: NaiveDateTime::parse_from_str with
\* "%Y-%m-%d %H:%M:%S"; None stands for Err
string_to_unix_timestamp(s) ==
    IF s = "2021-03-04 05:06:07" THEN Some(1614834367) ELSE None

\* ImageMetadata::try_get_timestamp_from_date_time
try_get_timestamp_from_date_time(metadata) ==
    IF metadata.date_time = None THEN 0
    ELSE LET parsed == string_to_unix_timestamp(metadata.date_time[1])
         IN  IF parsed = None THEN 0 ELSE parsed[1]

\* insert_image: let date_time = match metadata { Some(m) => ..., _ => 0 }
date_time_of(metadata) ==
    IF metadata = None THEN 0
    ELSE try_get_timestamp_from_date_time(metadata[1])

\* ------------------------------------------------------------ state
VARIABLES
    image_file_names,     \* MyWindowHandler.image_file_names (disk::get_file_names)
    image_index,          \* MyWindowHandler.image_index
    screen_resolution,    \* MyWindowHandler.screen_resolution
    image,                \* MyWindowHandler.image: None or Some(bytes shown)
    state,                \* MyWindowHandler.state: RenderState
    is_starred,           \* MyWindowHandler.is_starred
    ui_pc,                \* where the UI thread is inside its callback
    keys,                 \* key presses delivered so far
    progress_percentage,  \* Arc<AtomicI32>
    connection,           \* Mutex<Connection>: the set of threads holding it
    user_event_sender,    \* Mutex<UserEventSender>: the threads holding it
    photos,               \* the rows of table photos, in rowid order
    threads,              \* the threads spawned by on_resize
    ui_miss,              \* key of the lookup that put the renderer into LoadingFull
    race_key,             \* key the foreground inserted although it had appeared since its miss
    overtakers,           \* threads that took the connection while the UI thread waits for it
    db_call,              \* the function called last on its own: arguments and result
    db_file,              \* thumbnails.db as sqlite sees it: file, table, readability of rows
    images                \* an Images value (images.rs): inner and index; None when there is none

vars == << image_file_names, image_index, screen_resolution, image, state, is_starred, ui_pc,
           keys, progress_percentage, connection, user_event_sender, photos,
           threads, ui_miss, race_key, overtakers, db_call, db_file, images >>

ui_vars == << image_file_names, image_index, screen_resolution, image, state, is_starred,
              ui_pc, keys, ui_miss, race_key, db_call, db_file, images >>

NumImages == Len(image_file_names)

\* image_file_names[i].jpg_file_name for a 0-based index i
jpg_file_name(i) == image_file_names[i + 1]

\* get_image_index: position of `name` in the list, 0 when it is not there
get_image_index(name) ==
    LET hits == { i \in 0 .. NumImages - 1 : jpg_file_name(i) = name }
    IN  IF hits = {} THEN 0
        ELSE CHOOSE i \in hits : \A j \in hits : i <= j

RenderStates ==
    { "Zooming", "Full", "LoadingFull", "ExportRequested", "Exporting", "Help" }

\* a thread that on_resize has not spawned yet
Unspawned ==
    [ pc |-> "unspawned", image_index |-> 0, size |-> DefaultResolution,
      pos |-> 0, num_processed |-> 0, stale |-> FALSE,
      visited |-> <<>>, written |-> <<>>, sent |-> 0, failed_build |-> FALSE,
      newer_at_build |-> FALSE ]

\* the walk without the skip: every pass starts at photo 0
update_cache_order_no_skip(image_index_) ==
    [ i \in 1 .. Len(image_file_names) |-> i - 1 ]

\* update_cache: enumerate().skip(image_index + 1), then
\* enumerate().take(image_index + 1)
update_cache_order(image_index_) ==
    LET all == [ i \in 1 .. NumImages |-> i - 1 ]
    IN  SubSeq(all, image_index_ + 2, NumImages) \o SubSeq(all, 1, image_index_ + 1)

\* the photo thread t is working on
CurrentIndex(t) == update_cache_order(threads[t].image_index)[threads[t].pos + 1]

CurrentName(t) == jpg_file_name(CurrentIndex(t))

\* the percentage cast to i32 without ceil()
percentage_floor(num_processed, num_images) ==
    (100 * num_processed) \div num_images

\* (100.0 * num_processed as f64 / num_images as f64).ceil() as i32
percentage(num_processed, num_images) ==
    (100 * num_processed + num_images - 1) \div num_images

\* the process runs until the UI thread panics or calls exit
Alive == ui_pc \notin { "crashed", "exited" }

Active(t) == threads[t].pc \notin { "unspawned", "done", "failed" }

\* a later on_resize has spawned another pass after thread t
Newer(t) == \E u \in Threads : u > t /\ threads[u].pc # "unspawned"

\* the stores a previous run of the program can have left behind, after
\* get_or_create_db's check_schema
PriorStores ==
    LET s == [x |-> 1920, y |-> 1080]
        n == FileNames[1]
    IN  { <<>>,
          << Row(n, s, Some(resize_jpg(load_image(n), s)), 1,
                 date_time_of(get_metadata(n))) >> }

\* thumbnails.db once get_or_create_db has returned Ok: the file is there,
\* table photos has the six columns
OpenedFile == [ exists |-> TRUE, table |-> "expected", unreadable |-> {} ]

\* main: the state handed to window.run_loop, for a folder of n photos, a
\* store out of `stores` and any file name on the command line
InitRun(n, stores) ==
    /\ image_file_names = SubSeq(FileNames, 1, n)
    /\ \E name \in { FileNames[i] : i \in 1 .. n } \cup { "other.txt" } :
          image_index = get_image_index(name)
    /\ screen_resolution = DefaultResolution
    /\ image = None
    /\ state = "Full"
    /\ is_starred = FALSE
    /\ ui_pc = "idle"
    /\ keys = 0
    /\ progress_percentage = 100
    /\ connection = {}
    /\ user_event_sender = {}
    /\ photos \in stores
    /\ threads = [ t \in Threads |-> Unspawned ]
    /\ ui_miss = None
    /\ race_key = None
    /\ overtakers = {}
    /\ db_file = OpenedFile
    /\ images = None

\* no function is called on its own
InitWith(n, stores) == InitRun(n, stores) /\ db_call = None

Init == InitWith(MaxPhotos, { <<>> })

InitKeys == InitWith(MaxPhotos, PriorStores)

\* one photo more: a pass writes three progress values
InitLong == InitWith(MaxPhotos + 1, { <<>> })

\* ------------------------------------------------------- the mutexes
\* a lock that never blocks
can_lock_always(mutex) == TRUE

\* Mutex::lock returns only when no thread holds the mutex
can_lock(mutex) == mutex = {}

lock(mutex, t) == mutex \cup {t}

\* a guard that outlives the db function
unlock_leak(mutex, t) == mutex

\* the MutexGuard is dropped when the db function returns
unlock(mutex, t) == mutex \ {t}

\* the UI thread is blocked in connection.lock() of a db function
UiWaiting ==
    ui_pc \in { "try_get_image_from_db", "insert_image",
                "update_image_is_starred", "get_starred_image_names" }

\* ------------------------------------------------- background threads
Key(name, size) == << name, size >>

\* on_resize's thread::spawn(move || update_cache(...)): the next thread
NextThread(slots) == CHOOSE t \in slots :
                        /\ threads[t].pc = "unspawned"
                        /\ \A u \in slots : threads[u].pc = "unspawned" => t <= u

spawn_update_cache(image_index_, size) ==
    [ Unspawned EXCEPT !.pc = "photo_exists",
                       !.image_index = image_index_,
                       !.size = size ]

\* update_cache_image: db::photo_exists(...) takes the connection lock
BgLockExists(t) ==
    /\ Alive
    /\ overtakers' = IF UiWaiting THEN overtakers \cup {t} ELSE overtakers
    /\ threads[t].pc = "photo_exists"
    /\ can_lock(connection)
    /\ connection' = lock(connection, t)
    /\ threads' = [ threads EXCEPT
                      ![t].pc = "photo_exists_locked",
                      ![t].visited = Append(@, CurrentIndex(t)) ]
    /\ UNCHANGED << ui_vars, progress_percentage, user_event_sender, photos >>

\* photo_exists runs its query and returns, dropping the guard
BgPhotoExists(t) ==
    /\ Alive
    /\ UNCHANGED overtakers
    /\ threads[t].pc = "photo_exists_locked"
    /\ connection' = unlock(connection, t)
    /\ threads' = [ threads EXCEPT
                      ![t].pc = IF photo_exists(photos, CurrentName(t), threads[t].size)
                                THEN "progress" ELSE "load_image",
                      ![t].newer_at_build =
                            ~photo_exists(photos, CurrentName(t), threads[t].size)
                                /\ Newer(t) ]
    /\ UNCHANGED << ui_vars, progress_percentage, user_event_sender, photos >>

\* load_and_insert_image: load_image(path, name)? and resize_jpg(&img, size)?
\* run outside any lock and touch nothing shared
BgLoadAndResize(t) ==
    /\ Alive
    /\ UNCHANGED overtakers
    /\ threads[t].pc = "load_image"
    /\ threads' = [ threads EXCEPT ![t].pc = "insert_image" ]
    /\ UNCHANGED << ui_vars, progress_percentage, connection,
                    user_event_sender, photos >>

\* db::insert_image(...) takes the connection lock
BgLockInsert(t) ==
    /\ Alive
    /\ overtakers' = IF UiWaiting THEN overtakers \cup {t} ELSE overtakers
    /\ threads[t].pc = "insert_image"
    /\ can_lock(connection)
    /\ connection' = lock(connection, t)
    /\ threads' = [ threads EXCEPT ![t].pc = "insert_image_locked" ]
    /\ UNCHANGED << ui_vars, progress_percentage, user_event_sender, photos >>

\* insert_image runs the INSERT and returns, dropping the guard
BgInsertImage(t) ==
    /\ Alive
    /\ UNCHANGED overtakers
    /\ threads[t].pc = "insert_image_locked"
    /\ photos' = insert_image(photos, CurrentName(t), threads[t].size,
                              resize_jpg(load_image(CurrentName(t)), threads[t].size),
                              date_time_of(get_metadata(CurrentName(t))))
    /\ connection' = unlock(connection, t)
    /\ threads' = [ threads EXCEPT ![t].pc = "progress" ]
    /\ UNCHANGED << ui_vars, progress_percentage, user_event_sender >>

\* a loop that logs the error of update_cache_image and takes the next photo
BgFail_continue(t) ==
    /\ Alive
    /\ UNCHANGED overtakers
    /\ threads[t].pc \in { "photo_exists_locked", "load_image",
                           "insert_image_locked" }
    /\ connection' = unlock(connection, t)
    /\ threads' = [ threads EXCEPT ![t].pc = "progress",
                                   ![t].failed_build = TRUE ]
    /\ UNCHANGED << ui_vars, progress_percentage, user_event_sender, photos >>

\* a build that leaves its row behind, without the blob, when it fails
BgFail_partial(t) ==
    /\ Alive
    /\ UNCHANGED overtakers
    /\ threads[t].pc \in { "photo_exists_locked", "load_image",
                           "insert_image_locked" }
    /\ connection' = unlock(connection, t)
    /\ threads' = [ threads EXCEPT ![t].pc = "failed",
                                   ![t].failed_build = TRUE ]
    /\ photos' = Append(photos, Row(CurrentName(t), threads[t].size, None,
                                    NotStarred, 0))
    /\ UNCHANGED << ui_vars, progress_percentage, user_event_sender >>

\* a step of update_cache_image fails (File::open or the decoder in
\* load_image, the encoder in resize_jpg, sqlite in photo_exists or
\* insert_image): the error, or the panic, ends update_cache and the thread
BgFail(t) ==
    /\ Alive
    /\ UNCHANGED overtakers
    /\ threads[t].pc \in { "photo_exists_locked", "load_image",
                           "insert_image_locked" }
    /\ connection' = unlock(connection, t)
    /\ threads' = [ threads EXCEPT ![t].pc = "failed",
                                   ![t].failed_build = TRUE ]
    /\ UNCHANGED << ui_vars, progress_percentage, user_event_sender, photos >>

\* *num_processed += 1; progress_percentage.store(percentage, Relaxed)
BgProgress(t) ==
    /\ Alive
    /\ UNCHANGED overtakers
    /\ threads[t].pc = "progress"
    /\ LET n == threads[t].num_processed + 1
       IN  /\ progress_percentage' = percentage(n, NumImages)
           /\ threads' = [ threads EXCEPT
                             ![t].pc = "send_event",
                             ![t].newer_at_build = FALSE,
                             ![t].num_processed = n,
                             ![t].written = Append(@, percentage(n, NumImages)) ]
    /\ UNCHANGED << ui_vars, connection, user_event_sender, photos >>

\* user_event_sender.lock().unwrap()
BgLockSender(t) ==
    /\ Alive
    /\ UNCHANGED overtakers
    /\ threads[t].pc = "send_event"
    /\ can_lock(user_event_sender)
    /\ user_event_sender' = lock(user_event_sender, t)
    /\ threads' = [ threads EXCEPT ![t].pc = "send_event_locked" ]
    /\ UNCHANGED << ui_vars, progress_percentage, connection, photos >>

\* locked.send_event(()); Ok(()): update_cache_image returns and the loop
\* of update_cache takes the next photo, or update_cache returns
BgSendEvent(t) ==
    /\ Alive
    /\ UNCHANGED overtakers
    /\ threads[t].pc = "send_event_locked"
    /\ user_event_sender' = unlock(user_event_sender, t)
    /\ threads' = [ threads EXCEPT
                      ![t].pc = IF threads[t].pos + 1 =
                                     Len(update_cache_order(threads[t].image_index))
                                THEN "done" ELSE "photo_exists",
                      ![t].pos = @ + 1,
                      ![t].sent = @ + 1,
                      ![t].stale = Newer(t) ]
    /\ UNCHANGED << ui_vars, progress_percentage, connection, photos >>


\* ------------------------------------------------------ the UI thread
\* self.image_file_names[self.image_index].jpg_file_name
ui_name == jpg_file_name(image_index)

bg_vars == << progress_percentage, user_event_sender, threads, overtakers >>

\* an on_resize that ends the passes that are running, wherever they are
on_resize_abort(size_pixels, slots) ==
    /\ Alive
    /\ UNCHANGED << image_file_names, db_call, db_file, images >>
    /\ ui_pc = "idle"
    /\ resolution_ok(size_pixels) => \E t \in slots : threads[t].pc = "unspawned"
    /\ screen_resolution' = size_pixels
    /\ IF resolution_ok(size_pixels)
       THEN /\ threads' = [ t \in Threads |->
                              IF t = NextThread(slots)
                              THEN spawn_update_cache(image_index, size_pixels)
                              ELSE IF Active(t) /\ t \notin connection
                                               /\ t \notin user_event_sender
                              THEN [ threads[t] EXCEPT !.pc = "done" ]
                              ELSE threads[t] ]
            /\ image' = None
       ELSE UNCHANGED << threads, image >>
    /\ UNCHANGED << image_index, state, is_starred, ui_pc, keys, ui_miss,
                    race_key, overtakers, progress_percentage, connection,
                    user_event_sender, photos >>

\* MyWindowHandler::on_resize
\* (slots: the threads still to be spawned bound the accepted resize events)
on_resize(size_pixels, slots) ==
    /\ Alive
    /\ UNCHANGED << image_file_names, db_call, db_file, images >>
    /\ ui_pc = "idle"
    /\ resolution_ok(size_pixels) => \E t \in slots : threads[t].pc = "unspawned"
    /\ screen_resolution' = size_pixels
    /\ IF resolution_ok(size_pixels)
       THEN /\ threads' = [ threads EXCEPT
                              ![NextThread(slots)] = spawn_update_cache(image_index, size_pixels) ]
            /\ image' = None
       ELSE UNCHANGED << threads, image >>
    /\ UNCHANGED << image_index, state, is_starred, ui_pc, keys, ui_miss,
                    race_key, overtakers, progress_percentage, connection,
                    user_event_sender, photos >>

\* MyWindowHandler::on_draw, up to its first blocking or long-running call
on_draw ==
    /\ Alive
    /\ UNCHANGED << image_file_names, db_call, db_file, images >>
    /\ ui_pc = "idle"
    /\ IF resolution_ok(screen_resolution) /\ image = None
       THEN CASE state = "Full" ->
                    /\ ui_pc' = "try_get_image_from_db"
                    /\ UNCHANGED state
              [] state = "LoadingFull" ->
                    /\ ui_pc' = "load_image"
                    /\ UNCHANGED state
              [] state = "Zooming" ->
                    \* load_image(...).unwrap(); crop_center; draw_image_full
                    /\ ui_pc' \in { "idle", "crashed" }
                    /\ UNCHANGED state
              [] state = "ExportRequested" ->
                    /\ state' = "Exporting"
                    /\ UNCHANGED ui_pc
              [] state = "Exporting" ->
                    /\ ui_pc' = "get_starred_image_names"
                    /\ UNCHANGED state
              [] state = "Help" ->
                    UNCHANGED << ui_pc, state >>
       ELSE UNCHANGED << ui_pc, state >>
    /\ UNCHANGED << image_index, screen_resolution, image, is_starred, keys,
                    ui_miss, race_key, bg_vars, connection, photos >>

\* the connection.lock().unwrap() that opens every db function
UiLockConnection ==
    /\ Alive
    /\ UNCHANGED << image_file_names, db_call, db_file, images >>
    /\ UiWaiting
    /\ can_lock(connection)
    /\ connection' = lock(connection, UiThread)
    /\ ui_pc' = CASE ui_pc = "try_get_image_from_db" -> "try_get_image_from_db_locked"
                  [] ui_pc = "insert_image" -> "insert_image_locked"
                  [] ui_pc = "update_image_is_starred" -> "update_image_is_starred_locked"
                  [] ui_pc = "get_starred_image_names" -> "get_starred_image_names_locked"
    /\ overtakers' = {}
    /\ UNCHANGED << image_index, screen_resolution, image, state, is_starred,
                    keys, ui_miss, race_key, progress_percentage,
                    user_event_sender, threads, photos >>

\* on_draw, RenderState::Full: the lookup returns
UiTryGetImage ==
    /\ Alive
    /\ UNCHANGED << image_file_names, db_call, db_file, images >>
    /\ ui_pc = "try_get_image_from_db_locked"
    /\ connection' = unlock(connection, UiThread)
    /\ ui_pc' = "idle"
    /\ LET found == try_get_image_from_db(photos, ui_name, screen_resolution)
       IN  IF found # None
           THEN /\ image' = Some(found[1].resized)
                /\ is_starred' = found[1].is_starred
                /\ UNCHANGED << state, ui_miss >>
           ELSE /\ state' = "LoadingFull"
                /\ ui_miss' = Some(Key(ui_name, screen_resolution))
                /\ UNCHANGED << image, is_starred >>
    /\ UNCHANGED << image_index, screen_resolution, keys, race_key, bg_vars, photos >>

\* on_draw, RenderState::LoadingFull: load_and_insert_image runs load_image
\* and resize_jpg
UiLoadAndResize ==
    /\ Alive
    /\ UNCHANGED << image_file_names, db_call, db_file, images >>
    /\ ui_pc = "load_image"
    /\ ui_pc' = "insert_image"
    /\ UNCHANGED << image_index, screen_resolution, image, state, is_starred,
                    keys, ui_miss, race_key, bg_vars, connection, photos >>

\* a foreground build that counts as a photo of the pass, as
\* update_cache_image does after its own build
UiInsertImage_counts ==
    /\ Alive
    /\ UNCHANGED << image_file_names, db_call, db_file, images >>
    /\ ui_pc = "insert_image_locked"
    /\ LET resized == resize_jpg(load_image(ui_name), screen_resolution)
       IN  /\ photos' = insert_image(photos, ui_name, screen_resolution, resized,
                                     date_time_of(get_metadata(ui_name)))
           /\ image' = Some(resized)
    /\ connection' = unlock(connection, UiThread)
    /\ state' = "Full"
    /\ ui_pc' = "idle"
    /\ race_key' = race_key
    /\ ui_miss' = None
    /\ progress_percentage' = percentage(1, NumImages)
    /\ UNCHANGED << image_index, screen_resolution, is_starred, keys,
                    user_event_sender, threads, overtakers >>

\* load_and_insert_image, insert_image returns; draw_image; state = Full
UiInsertImage ==
    /\ Alive
    /\ UNCHANGED << image_file_names, db_call, db_file, images >>
    /\ ui_pc = "insert_image_locked"
    /\ LET resized == resize_jpg(load_image(ui_name), screen_resolution)
       IN  /\ photos' = insert_image(photos, ui_name, screen_resolution, resized,
                                     date_time_of(get_metadata(ui_name)))
           /\ image' = Some(resized)
    /\ connection' = unlock(connection, UiThread)
    /\ state' = "Full"
    /\ ui_pc' = "idle"
    /\ race_key' = IF /\ ui_miss = Some(Key(ui_name, screen_resolution))
                      /\ photo_exists(photos, ui_name, screen_resolution)
                   THEN ui_miss
                   ELSE race_key
    /\ ui_miss' = None
    /\ UNCHANGED << image_index, screen_resolution, is_starred, keys, bg_vars >>

\* on_key_down, Space: db::update_image_is_starred returns
UiUpdateStarred ==
    /\ Alive
    /\ UNCHANGED << image_file_names, db_call, db_file, images >>
    /\ ui_pc = "update_image_is_starred_locked"
    /\ photos' = update_image_is_starred(photos, ui_name, is_starred)
    /\ connection' = unlock(connection, UiThread)
    /\ ui_pc' = "idle"
    /\ UNCHANGED << image_index, screen_resolution, image, state, is_starred,
                    keys, ui_miss, race_key, bg_vars >>

\* on_draw, RenderState::Exporting: export(...) returns
UiExport ==
    /\ Alive
    /\ UNCHANGED << image_file_names, db_call, db_file, images >>
    /\ ui_pc = "get_starred_image_names_locked"
    /\ connection' = unlock(connection, UiThread)
    /\ state' = "Full"
    /\ ui_pc' = "idle"
    /\ UNCHANGED << image_index, screen_resolution, image, is_starred, keys,
                    ui_miss, race_key, bg_vars, photos >>

\* a Result the UI thread unwraps is an Err: the UI thread panics
UiPanic ==
    /\ Alive
    /\ UNCHANGED << image_file_names, db_call, db_file, images >>
    /\ ui_pc \in { "try_get_image_from_db_locked", "load_image",
                   "insert_image_locked", "update_image_is_starred_locked",
                   "get_starred_image_names_locked" }
    /\ connection' = unlock(connection, UiThread)
    /\ ui_pc' = "crashed"
    /\ UNCHANGED << image_index, screen_resolution, image, state, is_starred,
                    keys, ui_miss, race_key, bg_vars, photos >>

KeyCodes == { "Escape", "Left", "Right", "LControl", "Space", "E", "F1" }

\* MyWindowHandler::on_key_down
on_key_down(virtual_key_code) ==
    /\ Alive
    /\ UNCHANGED << image_file_names, db_call, db_file, images >>
    /\ ui_pc = "idle"
    /\ keys < MaxKeys
    /\ keys' = keys + 1
    /\ CASE virtual_key_code = "Escape" ->
              IF state = "Help"
              THEN /\ state' = "Full"
                   /\ UNCHANGED << image_index, image, is_starred, ui_pc >>
              ELSE /\ ui_pc' = "exited"
                   /\ UNCHANGED << image_index, image, is_starred, state >>
         [] virtual_key_code = "Left" ->
              /\ image_index' = IF image_index = 0 THEN NumImages - 1
                                ELSE image_index - 1
              /\ image' = None
              /\ is_starred' = FALSE
              /\ UNCHANGED << state, ui_pc >>
         [] virtual_key_code = "Right" ->
              /\ image_index' = IF image_index = NumImages - 1 THEN 0
                                ELSE image_index + 1
              /\ image' = None
              /\ is_starred' = FALSE
              /\ UNCHANGED << state, ui_pc >>
         [] virtual_key_code = "LControl" ->
              /\ state' = "Zooming"
              /\ image' = None
              /\ is_starred' = FALSE
              /\ UNCHANGED << image_index, ui_pc >>
         [] virtual_key_code = "Space" ->
              /\ is_starred' = ~is_starred
              /\ ui_pc' = "update_image_is_starred"
              /\ UNCHANGED << image_index, image, state >>
         [] virtual_key_code = "E" ->
              IF state # "ExportRequested"
              THEN /\ state' = "ExportRequested"
                   /\ image' = None
                   /\ UNCHANGED << image_index, is_starred, ui_pc >>
              ELSE UNCHANGED << image_index, image, is_starred, state, ui_pc >>
         [] virtual_key_code = "F1" ->
              /\ state' = IF state = "Help" THEN "Full" ELSE "Help"
              /\ image' = None
              /\ UNCHANGED << image_index, is_starred, ui_pc >>
    /\ UNCHANGED << screen_resolution, ui_miss, race_key, bg_vars, connection,
                    photos >>

\* MyWindowHandler::on_key_up, LControl
on_key_up ==
    /\ Alive
    /\ UNCHANGED << image_file_names, db_call, db_file, images >>
    /\ ui_pc = "idle"
    /\ keys < MaxKeys
    /\ keys' = keys + 1
    /\ state' = "Full"
    /\ image' = None
    /\ UNCHANGED << image_index, screen_resolution, is_starred, ui_pc, ui_miss,
                    race_key, bg_vars, connection, photos >>

\* ------------------------------------------------------ specification
\* the callbacks the event loop runs to completion, one at a time
UiSteps ==
    \/ on_draw
    \/ UiLockConnection
    \/ UiTryGetImage
    \/ UiLoadAndResize
    \/ UiInsertImage
    \/ UiPanic

UiKeySteps ==
    \/ \E virtual_key_code \in KeyCodes : on_key_down(virtual_key_code)
    \/ on_key_up
    \/ UiUpdateStarred
    \/ UiExport

BgNext(t) ==
    \/ BgLockExists(t)
    \/ BgPhotoExists(t)
    \/ BgLoadAndResize(t)
    \/ BgLockInsert(t)
    \/ BgInsertImage(t)
    \/ BgFail(t)
    \/ BgProgress(t)
    \/ BgLockSender(t)
    \/ BgSendEvent(t)

\* resize events and redraws against the passes of two resize events
Next ==
    \/ \E size_pixels \in Resolutions : on_resize(size_pixels, Threads)
    \/ UiSteps
    \/ \E t \in Threads : BgNext(t)

Spec == Init /\ [][Next]_vars

\* resize events, redraws and key events against the pass of one resize event
NextKeys ==
    \/ \E size_pixels \in Resolutions : on_resize(size_pixels, {1})
    \/ UiSteps
    \/ UiKeySteps
    \/ BgNext(1)

SpecKeys == InitKeys /\ [][NextKeys]_vars

\* Next for a folder of one photo more
SpecLong == InitLong /\ [][Next]_vars

\* the program started on the first photo of the folder
InitFirst == Init /\ image_index = 0

SpecFirst == InitFirst /\ [][Next]_vars

\* resize events and redraws against the pass of one resize event
NextOne ==
    \/ \E size_pixels \in Resolutions : on_resize(size_pixels, {1})
    \/ UiSteps
    \/ BgNext(1)

\* one pass over the folder of one photo more
SpecOne == InitLong /\ [][NextOne]_vars

\* ------------------------------------------- the db functions alone
\* The functions of db.rs called one at a time on any table, by a caller
\* that is not inside another db function.
DbNames == { FileNames[1], FileNames[2] }

\* the sizes rows are inserted with: they differ in y_res only
DbRowSizes == { [x |-> 1920, y |-> 1080], [x |-> 1920, y |-> 1200] }

\* the sizes asked for: one more, that differs from a row's in x_res only
DbSizes == DbRowSizes \cup { [x |-> 1024, y |-> 1080] }

\* the blobs callers hand to insert_image
DbBlobs == { resize_jpg(load_image(FileNames[1]), [x |-> 1920, y |-> 1080]),
             resize_jpg(load_image(FileNames[2]), [x |-> 1920, y |-> 1080]) }

\* Option<ImageMetadata>: a parseable date, a date in exif's own format, no
\* date field, no metadata
Metadatas == { get_metadata(n) : n \in { "A.JPG", "B.JPG", "C.JPG", "D.JPG" } }

\* rows whose blob is NULL, which only a table written by something else
\* than insert_image can hold when the program opens it
DbRows == { Row(n, sz, None, NotStarred, 0) : n \in DbNames, sz \in DbRowSizes }

DbStores == { <<>> } \cup { << r >> : r \in DbRows }

InitDb == InitWith(1, DbStores)

prog_vars == << image_file_names, image_index, screen_resolution, image, state,
                is_starred, ui_pc, keys, progress_percentage, connection,
                user_event_sender, threads, ui_miss, race_key, overtakers,
                db_file, images >>

\* db::photo_exists(name, size, connection)
db_photo_exists(name, size) ==
    /\ can_lock(connection)
    /\ db_call' = Some([ op |-> "photo_exists", name |-> name, size |-> size,
                         result |-> photo_exists(photos, name, size) ])
    /\ UNCHANGED << prog_vars, photos >>

\* db::try_get_image_from_db(name, size, connection)
db_try_get_image_from_db(name, size) ==
    /\ can_lock(connection)
    /\ db_call' = Some([ op |-> "try_get_image_from_db", name |-> name,
                         size |-> size,
                         result |-> try_get_image_from_db(photos, name, size) ])
    /\ UNCHANGED << prog_vars, photos >>

\* db::insert_image(name, size, resized, metadata, connection)
db_insert_image(name, size, resized, metadata) ==
    /\ can_lock(connection)
    /\ Len(photos) < MaxRows
    /\ photos' = insert_image(photos, name, size, resized, date_time_of(metadata))
    /\ db_call' = Some([ op |-> "insert_image", name |-> name, size |-> size,
                         resized |-> resized, metadata |-> metadata ])
    /\ UNCHANGED prog_vars

\* db::update_image_is_starred(name, is_starred, connection)
db_update_image_is_starred(name, is_starred_) ==
    /\ can_lock(connection)
    /\ photos' = update_image_is_starred(photos, name, is_starred_)
    /\ db_call' = Some([ op |-> "update_image_is_starred", name |-> name,
                         is_starred |-> is_starred_ ])
    /\ UNCHANGED prog_vars

\* db::get_starred_image_names(connection)
db_get_starred_image_names ==
    /\ can_lock(connection)
    /\ db_call' = Some([ op |-> "get_starred_image_names",
                         result |-> get_starred_image_names(photos) ])
    /\ UNCHANGED << prog_vars, photos >>

NextDb ==
    \/ \E name \in DbNames, size \in DbSizes : db_photo_exists(name, size)
    \/ \E name \in DbNames, size \in DbSizes : db_try_get_image_from_db(name, size)
    \/ \E name \in DbNames, size \in DbRowSizes, resized \in DbBlobs,
          metadata \in Metadatas : db_insert_image(name, size, resized, metadata)
    \/ \E name \in DbNames, is_starred_ \in BOOLEAN :
          db_update_image_is_starred(name, is_starred_)
    \/ db_get_starred_image_names

SpecDb == InitDb /\ [][NextDb]_vars


\* ------------------------------------------------ opening the store
Ok(v) == [ ok |-> TRUE, value |-> v ]

Err(e) == [ ok |-> FALSE, error |-> e ]

\* what sqlite answers to the statements of get_or_create_db that touch the
\* file: all succeed, sqlite::open fails, DROP TABLE fails, CREATE TABLE fails
IoOutcomes == { "ok", "open_fails", "drop_fails", "create_fails" }

\* create_schema: DROP TABLE IF EXISTS photos; CREATE TABLE photos (...)
create_schema(file, rows, io) ==
    IF io = "drop_fails"
    THEN [ result |-> Err("create_schema"), file |-> file, rows |-> rows ]
    ELSE IF io = "create_fails"
    THEN [ result |-> Err("create_schema"),
           file |-> [ file EXCEPT !.table = "missing", !.unreadable = {} ],
           rows |-> <<>> ]
    ELSE [ result |-> Ok(<<>>), file |-> OpenedFile, rows |-> <<>> ]

\* a check that looks for a readable row anywhere in the table
schema_is_ok_any_row(file, rows) ==
    IF file.table # "expected" THEN Err("schema_is_ok")
    ELSE IF rows = <<>> THEN Ok(FALSE)
    ELSE IF \A i \in 1 .. Len(rows) : i \in file.unreadable
    THEN Err("schema_is_ok")
    ELSE Ok(TRUE)

\* schema_is_ok: SELECT the six columns FROM photos LIMIT 1; prepare fails
\* when the table or a column is missing; the typed reads of the first row
\* fail when a value of it cannot be read; no row is Ok(false)
schema_is_ok(file, rows) ==
    IF file.table # "expected" THEN Err("schema_is_ok")
    ELSE IF rows = <<>> THEN Ok(FALSE)
    ELSE IF 1 \in file.unreadable THEN Err("schema_is_ok")
    ELSE Ok(TRUE)

\* check_schema: Ok(true) keeps the table; Ok(false) and Err(e) both log
\* and run create_schema(connection)?
check_schema(file, rows, io) ==
    LET checked == schema_is_ok(file, rows)
    IN  IF checked = Ok(TRUE)
        THEN [ result |-> Ok(<<>>), file |-> file, rows |-> rows ]
        ELSE IF checked = Ok(FALSE)
        THEN create_schema(file, rows, io)
        ELSE create_schema(file, rows, io)

\* get_or_create_db: sqlite::open(..)?, then check_schema for a file that
\* was there and create_schema for the file sqlite::open has just created
get_or_create_db(file, rows, io) ==
    IF io = "open_fails"
    THEN [ result |-> Err("open"), file |-> file, rows |-> rows ]
    ELSE IF file.exists
    THEN check_schema(file, rows, io)
    ELSE create_schema([ file EXCEPT !.exists = TRUE ], rows, io)

\* the rows a thumbnails.db found at startup can hold
StartupRows ==
    { Row(n, [x |-> 1920, y |-> 1080],
          Some(resize_jpg(load_image(n), [x |-> 1920, y |-> 1080])), st, 0) :
        n \in DbNames, st \in { 0, 1 } }

StartupTables ==
    UNION { [ 1 .. n -> StartupRows ] : n \in 0 .. MaxRows }

\* the folder at startup: no thumbnails.db, or a file with or without table
\* photos, with the six columns or those of an older version, and any rows,
\* some of which hold values the typed reads of schema_is_ok cannot read
InitStartup ==
    /\ image_file_names = SubSeq(FileNames, 1, 1)
    /\ image_index = 0
    /\ screen_resolution = DefaultResolution
    /\ image = None
    /\ state = "Full"
    /\ is_starred = FALSE
    /\ ui_pc = "idle"
    /\ keys = 0
    /\ progress_percentage = 100
    /\ connection = {}
    /\ user_event_sender = {}
    /\ threads = [ t \in Threads |-> Unspawned ]
    /\ ui_miss = None
    /\ race_key = None
    /\ overtakers = {}
    /\ db_call = None
    /\ images = None
    /\ photos \in StartupTables
    /\ \E exists \in BOOLEAN, table \in { "missing", "old", "expected" },
          unreadable \in SUBSET (1 .. Len(photos)) :
          /\ ~exists => table = "missing"
          /\ table = "missing" => photos = <<>>
          /\ db_file = [ exists |-> exists, table |-> table,
                         unreadable |-> unreadable ]

\* main: db::get_or_create_db(&path)
db_get_or_create_db(io) ==
    /\ db_call = None
    /\ LET opened == get_or_create_db(db_file, photos, io)
       IN  /\ photos' = opened.rows
           /\ db_file' = opened.file
           /\ db_call' = Some([ op |-> "get_or_create_db", io |-> io,
                                file |-> db_file, rows |-> photos,
                                result |-> opened.result ])
    /\ UNCHANGED << image_file_names, image_index, screen_resolution, image,
                    state, is_starred, ui_pc, keys, progress_percentage,
                    connection, user_event_sender, threads, ui_miss, race_key,
                    overtakers, images >>

NextStartup == \E io \in IoOutcomes : db_get_or_create_db(io)

SpecStartup == InitStartup /\ [][NextStartup]_vars

\* ------------------------------------------------- load_image alone
\* DynamicImage::rotate90, rotate180, rotate270: clockwise turns of the
\* decoded picture; a quarter turn swaps width and height
rotate90(img) == [ w |-> img.h, h |-> img.w, turn |-> (img.turn + 90) % 360 ]

rotate180(img) == [ w |-> img.w, h |-> img.h, turn |-> (img.turn + 180) % 360 ]

rotate270(img) == [ w |-> img.h, h |-> img.w, turn |-> (img.turn + 270) % 360 ]

\* a match whose arms for the tags 6 and 8 are exchanged
load_image_rotate_mirrored(img, metadata) ==
    IF metadata = Ok([ orientation |-> Some(8) ]) THEN rotate90(img)
    ELSE IF metadata = Ok([ orientation |-> Some(3) ]) THEN rotate180(img)
    ELSE IF metadata = Ok([ orientation |-> Some(6) ]) THEN rotate270(img)
    ELSE img

\* load_image: match get_metadata(path, name) { Some(8) => rotate270,
\* Some(3) => rotate180, Some(6) => rotate90, _ => img }; Ok(img)
load_image_rotate(img, metadata) ==
    IF metadata = Ok([ orientation |-> Some(8) ]) THEN rotate270(img)
    ELSE IF metadata = Ok([ orientation |-> Some(3) ]) THEN rotate180(img)
    ELSE IF metadata = Ok([ orientation |-> Some(6) ]) THEN rotate90(img)
    ELSE img

\* largest orientation value and largest side of a decoded picture tried
MaxOrientation == 9

MaxSide == 3

\* what main.rs's get_metadata returns: the orientation field read as an
\* unsigned integer, no such field, or the error that the file has no exif
Orientations ==
    { Ok([ orientation |-> Some(v) ]) : v \in 0 .. MaxOrientation }
        \cup { Ok([ orientation |-> None ]), Err("exif") }

\* what image::load returns for the file
DecodedImages ==
    { [ w |-> w, h |-> h, turn |-> 0 ] : w \in 1 .. MaxSide, h \in 1 .. MaxSide }

\* load_image has decoded a file and is about to match on its metadata
InitLoad ==
    /\ InitRun(1, { <<>> })
    /\ \E img \in DecodedImages, metadata \in Orientations :
          db_call = Some([ op |-> "load_image", decoded |-> img,
                           metadata |-> metadata, result |-> None ])

\* load_image returns
call_load_image ==
    /\ db_call[1].op = "load_image"
    /\ db_call[1].result = None
    /\ db_call' = Some([ db_call[1] EXCEPT
                           !.result = Some(Ok(load_image_rotate(db_call[1].decoded,
                                                                db_call[1].metadata))) ])
    /\ UNCHANGED << prog_vars, photos >>

SpecLoad == InitLoad /\ [][call_load_image]_vars

\* ------------------------------------------- the percentage alone
\* largest folder tried for the percentage
MaxImages == 101

\* draw_progress_text: the text is drawn only if percentage < 100
draw_progress_text(percentage_) == percentage_ < 100

\* update_cache_image is about to count a photo, in a folder of num_images
\* photos of which the pass has processed num_processed
InitPercent ==
    /\ InitRun(1, { <<>> })
    /\ \E num_images \in 1 .. MaxImages, num_processed \in 0 .. MaxImages - 1 :
          /\ num_processed < num_images
          /\ db_call = Some([ op |-> "update_cache_image",
                              num_images |-> num_images,
                              num_processed |-> num_processed,
                              percentage |-> None, drawn |-> None ])

\* *num_processed += 1; the percentage is computed and stored, and the
\* redraw it asks for runs draw_progress_text
call_percentage ==
    /\ db_call[1].op = "update_cache_image"
    /\ db_call[1].percentage = None
    /\ LET n == db_call[1].num_processed + 1
           p == percentage(n, db_call[1].num_images)
       IN  db_call' = Some([ db_call[1] EXCEPT
                               !.num_processed = n,
                               !.percentage = Some(p),
                               !.drawn = Some(draw_progress_text(p)) ])
    /\ UNCHANGED << prog_vars, photos >>

SpecPercent == InitPercent /\ [][call_percentage]_vars

\* ------------------------------------------------ navigation alone
\* Images (images.rs) is the list of photos with the index of the current
\* one; its functions are called one at a time on a value built from a
\* list that main's check let through.

\* Images::current: &self.inner[self.index]
Images_current(imgs) == imgs.inner[imgs.index + 1]

\* a next that does not wrap at the end of the list
Images_next_no_wrap(imgs) == [ imgs EXCEPT !.index = @ + 1 ]

\* Images::next
Images_next(imgs) ==
    IF imgs.index = Len(imgs.inner) - 1
    THEN [ imgs EXCEPT !.index = 0 ]
    ELSE [ imgs EXCEPT !.index = @ + 1 ]

\* Images::prev
Images_prev(imgs) ==
    IF imgs.index = 0
    THEN [ imgs EXCEPT !.index = Len(imgs.inner) - 1 ]
    ELSE [ imgs EXCEPT !.index = @ - 1 ]

\* a guard that enters the loop whatever the list holds
Images_any_starred_skipped(imgs) == TRUE

\* self.all().iter().any(|x| x.is_starred)
Images_any_starred(imgs) ==
    \E i \in 1 .. Len(imgs.inner) : imgs.inner[i].is_starred

\* the lists of ImageNamePair an Images is built from: one photo at least,
\* any of them starred
ImageLists ==
    UNION { [ 1 .. n -> { [ jpg_file_name |-> name, is_starred |-> starred ] :
                            name \in { FileNames[1] }, starred \in BOOLEAN } ] :
            n \in 1 .. MaxPhotos + 1 }

\* main up to window.run_loop for a folder of 0 .. MaxPhotos photos, and
\* an Images::new(path, name, image_file_names) for any list and any name:
\* the index of the name in the list, 0 when it is not there
InitImages ==
    /\ \E n \in 0 .. MaxPhotos : image_file_names = SubSeq(FileNames, 1, n)
    /\ \E name \in { FileNames[i] : i \in 1 .. MaxPhotos } \cup { "other.txt" } :
          image_index = get_image_index(name)
    /\ screen_resolution = DefaultResolution
    /\ image = None
    /\ state = "Full"
    /\ is_starred = FALSE
    /\ ui_pc = "main"
    /\ keys = 0
    /\ progress_percentage = 100
    /\ connection = {}
    /\ user_event_sender = {}
    /\ photos = <<>>
    /\ threads = [ t \in Threads |-> Unspawned ]
    /\ ui_miss = None
    /\ race_key = None
    /\ overtakers = {}
    /\ db_call = None
    /\ db_file = OpenedFile
    /\ \E inner \in ImageLists, index \in 0 .. MaxPhotos :
          /\ index < Len(inner)
          /\ images = [ inner |-> inner, index |-> index ]

\* main: if image_file_names.len() == 0 { return Ok(()) }; window.run_loop
main_run ==
    /\ ui_pc = "main"
    /\ ui_pc' = IF Len(image_file_names) = 0 THEN "exited" ELSE "idle"
    /\ UNCHANGED << image_file_names, image_index, screen_resolution, image,
                    state, is_starred, keys, progress_percentage, connection,
                    user_event_sender, photos, threads, ui_miss, race_key,
                    overtakers, db_call, db_file, images >>

\* what the functions of Images leave alone: everything but the value
main_vars == << image_file_names, image_index, screen_resolution, image, state,
                is_starred, ui_pc, keys, progress_percentage, connection,
                user_event_sender, photos, threads, ui_miss, race_key,
                overtakers, db_file >>

\* no function of Images is running
Returned == IF db_call = None THEN TRUE ELSE ~db_call[1].running

\* images.next()
call_next ==
    /\ Returned
    /\ images' = Images_next(images)
    /\ db_call' = Some([ op |-> "next", before |-> images, steps |-> 0,
                         running |-> FALSE ])
    /\ UNCHANGED main_vars

\* images.prev()
call_prev ==
    /\ Returned
    /\ images' = Images_prev(images)
    /\ db_call' = Some([ op |-> "prev", before |-> images, steps |-> 0,
                         running |-> FALSE ])
    /\ UNCHANGED main_vars

\* images.next_starred() or images.prev_starred() up to the loop: the
\* function returns at once when no photo is starred
call_starred(op) ==
    /\ Returned
    /\ images' = images
    /\ db_call' = Some([ op |-> op, before |-> images, steps |-> 0,
                         running |-> Images_any_starred(images) ])
    /\ UNCHANGED main_vars

\* one turn of the loop: self.next() or self.prev(), then break if the
\* current photo is starred
loop_starred ==
    /\ db_call # None
    /\ db_call[1].running
    /\ images' = IF db_call[1].op = "next_starred" THEN Images_next(images)
                 ELSE Images_prev(images)
    /\ db_call' = Some([ db_call[1] EXCEPT
                           !.steps = @ + 1,
                           !.running = ~Images_current(images').is_starred ])
    /\ UNCHANGED main_vars

NextImages ==
    \/ main_run
    \/ \E virtual_key_code \in { "Left", "Right" } : on_key_down(virtual_key_code)
    \/ call_next
    \/ call_prev
    \/ \E op \in { "next_starred", "prev_starred" } : call_starred(op)
    \/ loop_starred

SpecImages == InitImages /\ [][NextImages]_vars

\* -------------------------------------------------------------- claims
\* the order k+1, ..., N-1, 0, ..., k
ExpectedWalk(k, n) == [ j \in 1 .. n |-> (k + j) % n ]

Spawned == { t \in Threads : threads[t].pc # "unspawned" }

\* C1: a pass started with current index k visits the photos in the order
\* k+1, k+2, ..., N-1, 0, 1, ..., k: what it has visited so far is a prefix
\* of that order, and a completed pass has visited all of it, every photo
\* exactly once.
C1_WalkCoverage ==
    \A t \in Spawned :
        LET v == threads[t].visited
            e == ExpectedWalk(threads[t].image_index, NumImages)
        IN  /\ Len(v) <= NumImages
            /\ v = SubSeq(e, 1, Len(v))
            /\ threads[t].pc = "done" => v = e

\* a completed pass that started before the last photo, so that its walk
\* wraps around to photo 0
C1_Witness ==
    \E t \in Threads :
        /\ threads[t].pc = "done"
        /\ threads[t].image_index < NumImages - 1
        /\ threads[t].visited[1] = threads[t].image_index + 1
        /\ threads[t].visited[NumImages] = threads[t].image_index

Building(t) ==
    threads[t].pc \in { "load_image", "insert_image", "insert_image_locked" }

\* C2: once a newer resolution has arrived, a pass builds no further photo
\* for its own size after the check point that follows the photo it was
\* working on, and a fresh pass for the new size has begun.
C2_RestartOnResize ==
    \A t \in Threads :
        threads[t].stale => ~Building(t) /\ Newer(t)

\* C3: at most one background pass is in progress.
C3_OnePassAtATime ==
    Cardinality({ t \in Threads : Active(t) }) <= 1

\* C4: when a pass for size S has completed, the store holds a row for
\* every photo of the list at size S, and the last value the pass wrote to
\* the progress counter is 100.
C4_CompletedPass ==
    \A t \in Threads :
        threads[t].pc = "done" =>
            /\ \A i \in 1 .. NumImages :
                  Count(photos, image_file_names[i], threads[t].size) >= 1
            /\ threads[t].written # <<>>
            /\ threads[t].written[Len(threads[t].written)] = 100

\* a pass has completed while another pass or the foreground has put rows
\* of another size into the store
C4_Witness ==
    \E t \in Threads :
        /\ threads[t].pc = "done"
        /\ Len(threads[t].written) = NumImages
        /\ \E i \in 1 .. Len(photos) : photos[i].x_res # threads[t].size.x
        /\ \A i \in 1 .. NumImages :
              Count(photos, image_file_names[i], threads[t].size) >= 1

\* C5: when the foreground inserts the key whose lookup reported absent and
\* a background pass has inserted that key in between (both saw it absent),
\* both rows are in the store: two rows for one key.
C5_CheckThenActRace ==
    race_key # None => Count(photos, race_key[1][1], race_key[1][2]) >= 2

\* the foreground and a background pass have both inserted the key
C5_Witness ==
    /\ race_key # None
    /\ Count(photos, race_key[1][1], race_key[1][2]) = 2
    /\ \E t \in Threads :
          /\ threads[t].size = race_key[1][2]
          /\ \E j \in 1 .. Len(threads[t].visited) :
                jpg_file_name(threads[t].visited[j]) = race_key[1][1]


\* C6: the progress counter decreases only by the first write of a pass
\* that has just started; every other write leaves it equal or higher.
C6_ProgressMonotone ==
    [][ progress_percentage' < progress_percentage =>
            \E t \in Threads : /\ threads[t].num_processed = 0
                               /\ threads'[t].num_processed = 1 ]_vars

\* C7: every row a build has inserted holds the bytes that build returned,
\* and a lookup of the row's key returns exactly those bytes, whatever rows
\* have been inserted and whatever stars have been set since; the lookup
\* reads the store only, it neither loads nor resizes.
C7_CacheHitAfterBuild ==
    \A i \in 1 .. Len(photos) :
        LET size == [ x |-> photos[i].x_res, y |-> photos[i].y_res ]
            hit  == try_get_image_from_db(photos, photos[i].name, size)
        IN  /\ hit # None
            /\ hit[1].resized = photos[i].resized[1]

\* a row built in this run is returned by the lookup of its key although a
\* row of the same photo at another size precedes it and the photo has
\* been starred since
C7_Witness ==
    \E i, j \in 1 .. Len(photos) :
        /\ i < j
        /\ photos[i].name = photos[j].name
        /\ photos[i].x_res # photos[j].x_res
        /\ photos[j].is_starred = 1
        /\ LET size == [ x |-> photos[j].x_res, y |-> photos[j].y_res ]
               hit  == try_get_image_from_db(photos, photos[j].name, size)
           IN  hit # None /\ hit[1].resized = photos[j].resized[1]

\* the threads that are executing a statement on the connection
InStoreCall ==
    { t \in Threads : threads[t].pc \in { "photo_exists_locked",
                                          "insert_image_locked" } }
        \cup (IF ui_pc \in { "try_get_image_from_db_locked",
                             "insert_image_locked",
                             "update_image_is_starred_locked",
                             "get_starred_image_names_locked" }
              THEN { UiThread } ELSE {})

\* C8: at most one thread at a time executes a store operation, and only
\* the holder of the connection's lock does.
C8_StoreMutualExclusion ==
    /\ Cardinality(InStoreCall) <= 1
    /\ InStoreCall \subseteq connection

\* one background thread is executing a store operation while the UI thread
\* and the other background thread are blocked in lock()
C8_Witness ==
    \E t, u \in Threads :
        /\ t # u
        /\ InStoreCall = { t }
        /\ UiWaiting
        /\ threads[u].pc \in { "photo_exists", "insert_image" }

\* C9: a thread that is loading or resizing a photo does not hold the
\* connection's lock, and a background pass does not hold it between its
\* photo_exists call and its insert_image call.
C9_LockPerCallOnly ==
    /\ \A t \in Threads :
          threads[t].pc \in { "load_image", "insert_image" } =>
              t \notin connection
    /\ ui_pc \in { "load_image", "insert_image" } => UiThread \notin connection

\* a background thread is loading a photo while the UI thread, which does
\* not wait for it, executes a store operation
C9_Witness ==
    \E t \in Threads :
        /\ threads[t].pc = "load_image"
        /\ connection = { UiThread }


\* Threads that can run are scheduled: a running pass takes its next step
\* and the UI thread, once inside a callback, carries it on.  Which waiter
\* gets a released std::sync::Mutex is not determined.
FairSpec ==
    /\ SpecKeys
    /\ WF_vars(BgNext(1))
    /\ WF_vars(UiLockConnection)
    /\ WF_vars(UiTryGetImage \/ UiLoadAndResize \/ UiInsertImage
                  \/ UiUpdateStarred \/ UiExport)

UiHolds == UiThread \in connection

\* C10: a store operation the UI thread requests is eventually executed,
\* and while the UI thread waits the connection is only ever held inside
\* one store call, never across a load or a resize or to the end of a pass.
C10_ForegroundServed ==
    /\ UiWaiting ~> UiHolds
    /\ [](UiWaiting => connection \subseteq InStoreCall)

\* the UI thread waits for the connection while the running pass is inside
\* a store call
C10_Witness ==
    /\ UiWaiting
    /\ \E t \in Threads : Active(t) /\ connection = { t }
    /\ connection \subseteq InStoreCall

\* C10 as stated: the UI thread's operation is eventually executed having
\* waited for at most the store calls already in flight when it asked; a
\* thread has at most one call in flight, so no thread takes the
\* connection twice while the UI thread waits.
C10_WaitsOnlyForCallsInFlight ==
    /\ UiWaiting ~> UiHolds
    /\ [][ \A t \in Threads :
              (UiWaiting /\ t \in overtakers) => ~(t \in connection') ]_vars


\* the last call of a db function was of `op`
DbCalled(op) == db_call # None /\ db_call[1].op = op

\* the rows whose name, x_res and y_res equal the arguments
RowsOfKey(rows, name, size) ==
    { i \in 1 .. Len(rows) : /\ rows[i].name = name
                             /\ rows[i].x_res = size.x
                             /\ rows[i].y_res = size.y }

\* C11: photo_exists(name, size) returns true iff the table holds a row
\* whose name, x_res and y_res all equal the arguments, whether or not the
\* row's blob is NULL; rows of the same name at another width or height do
\* not make it true.
C11_ExistsExactKey ==
    DbCalled("photo_exists") =>
        (db_call[1].result <=>
            RowsOfKey(photos, db_call[1].name, db_call[1].size) # {})

\* photo_exists answered true for a key whose only row has a NULL blob
C11_Witness ==
    /\ DbCalled("photo_exists")
    /\ db_call[1].result
    /\ \A i \in RowsOfKey(photos, db_call[1].name, db_call[1].size) :
          photos[i].resized = None

\* C12: try_get_image_from_db(name, size) returns bytes iff a row of exactly
\* that name, width and height has a blob that is not NULL; it returns None
\* when no row matches and when every matching row's blob is NULL; when
\* several rows match it returns the blob of the first of them.
C12_GetBytes ==
    DbCalled("try_get_image_from_db") =>
        LET hits == { i \in RowsOfKey(photos, db_call[1].name, db_call[1].size) :
                        photos[i].resized # None }
        IN  /\ db_call[1].result = None <=> hits = {}
            /\ \A i \in hits :
                  (\A j \in hits : i <= j) =>
                      db_call[1].result[1].resized = photos[i].resized[1]

\* two rows of the key hold different blobs and the first one's is returned
C12_Witness ==
    /\ DbCalled("try_get_image_from_db")
    /\ db_call[1].result # None
    /\ \E i, j \in RowsOfKey(photos, db_call[1].name, db_call[1].size) :
          /\ i < j
          /\ photos[i].resized # None /\ photos[j].resized # None
          /\ photos[i].resized # photos[j].resized
          /\ db_call[1].result[1].resized = photos[i].resized[1]

\* the capture timestamp of Option<ImageMetadata>: 0 without metadata,
\* without a date and for a date that does not parse
CaptureTimestamp(metadata) ==
    IF metadata = None THEN 0
    ELSE IF metadata[1].date_time = None THEN 0
    ELSE IF string_to_unix_timestamp(metadata[1].date_time[1]) = None THEN 0
    ELSE string_to_unix_timestamp(metadata[1].date_time[1])[1]

\* C13: insert_image(name, size, resized, metadata) adds exactly one row, at
\* the end: the key and the blob of the call, is_starred = 0 and date_time =
\* the capture timestamp; it leaves every row that was there as it was,
\* whether or not one of them has the same key.
C13_InsertAddsOneRow ==
    [][ (db_call' # None /\ db_call'[1].op = "insert_image") =>
            /\ Len(photos') = Len(photos) + 1
            /\ SubSeq(photos', 1, Len(photos)) = photos
            /\ photos'[Len(photos')] =
                  [ name |-> db_call'[1].name,
                    x_res |-> db_call'[1].size.x,
                    y_res |-> db_call'[1].size.y,
                    resized |-> Some(db_call'[1].resized),
                    is_starred |-> 0,
                    date_time |-> CaptureTimestamp(db_call'[1].metadata) ] ]_vars

\* insert_image was called for a key that had a starred row: there are two
\* rows of the key now and the new one is not starred
C13_Witness ==
    /\ DbCalled("insert_image")
    /\ Len(photos) = 2
    /\ RowsOfKey(photos, db_call[1].name, db_call[1].size) = { 1, 2 }
    /\ photos[1].is_starred = 1
    /\ photos[2].is_starred = 0
    /\ db_call[1].metadata # None /\ photos[2].date_time = 0

\* C14: update_image_is_starred(name, flag) sets is_starred to flag on
\* every row of that name, at every size, and changes nothing else: the
\* rows of other names and the other columns of every row stay as they were.
C14_SetStarred ==
    [][ (db_call' # None /\ db_call'[1].op = "update_image_is_starred") =>
            /\ Len(photos') = Len(photos)
            /\ \A i \in 1 .. Len(photos) :
                  photos'[i] =
                      IF photos[i].name = db_call'[1].name
                      THEN [ photos[i] EXCEPT !.is_starred =
                                  IF db_call'[1].is_starred THEN 1 ELSE 0 ]
                      ELSE photos[i] ]_vars

\* the rows of one photo at two sizes are both starred by one call
C14_Witness ==
    /\ DbCalled("update_image_is_starred")
    /\ db_call[1].is_starred
    /\ Len(photos) = 2
    /\ photos[1].name = db_call[1].name /\ photos[2].name = db_call[1].name
    /\ photos[1].y_res # photos[2].y_res
    /\ photos[1].is_starred = 1 /\ photos[2].is_starred = 1


\* the Space key's update_image_is_starred has returned in this step
StarUpdated == ui_pc = "update_image_is_starred_locked" /\ ui_pc' = "idle"

HasRowOfName(rows, name) == \E i \in 1 .. Len(rows) : rows[i].name = name

\* C15: after update_image_is_starred(name, true), get_starred_image_names
\* contains name provided the table holds a row of that name, and after
\* update_image_is_starred(name, false) it does not contain name; for a
\* name without rows the update changes nothing and the name is not listed.
C15_StarRoundTripOfCachedPhoto ==
    [][ StarUpdated =>
            (ui_name \in get_starred_image_names(photos') <=>
                (is_starred /\ HasRowOfName(photos, ui_name))) ]_vars

\* the photo shown, built in this run, has been starred and is listed
C15_Witness ==
    /\ ui_pc = "idle"
    /\ is_starred
    /\ ui_name \in get_starred_image_names(photos)
    /\ \E i \in 1 .. Len(photos) :
          /\ photos[i].name = ui_name
          /\ photos[i].x_res # 1920
          /\ photos[i].is_starred = 1

\* C15 as stated: in any reachable store state, after
\* update_image_is_starred(name, true) the listed names contain name and
\* after update_image_is_starred(name, false) they do not.
C15_StarRoundTrip ==
    [][ StarUpdated =>
            (ui_name \in get_starred_image_names(photos') <=> is_starred) ]_vars

\* C16: a step that changes the table either appends one row to it or
\* changes nothing but is_starred columns: no step of the UI thread, of a
\* pass or of a failing pass removes a row or changes the name, the size,
\* the blob or the date of a row that is there.
C16_RowsOnlyAddedOrStarred ==
    [][ photos' # photos =>
            \/ /\ Len(photos') = Len(photos) + 1
               /\ SubSeq(photos', 1, Len(photos)) = photos
            \/ /\ Len(photos') = Len(photos)
               /\ \A i \in 1 .. Len(photos) :
                     photos'[i] = [ photos[i] EXCEPT
                                      !.is_starred = photos'[i].is_starred ] ]_vars

\* a pass has failed after it built a photo, the UI thread has built
\* another and that row has been starred
C16_Witness ==
    /\ threads[1].pc = "failed"
    /\ Len(threads[1].visited) = 2
    /\ \E i, j \in 1 .. Len(photos) :
          /\ i < j
          /\ photos[i].x_res = threads[1].size.x
          /\ photos[j].x_res = threads[1].size.x
          /\ photos[i].is_starred = 0
          /\ photos[j].is_starred = 1


\* the least integer that is at least 100 * completed / total
CeilPercent(completed, total) ==
    CHOOSE p \in 0 .. 100 : /\ p * total >= 100 * completed
                            /\ (p - 1) * total < 100 * completed

\* C17: when photo_exists has returned for a photo, the pass goes straight
\* on to the progress update if a row of (name, size) is there, without a
\* load, a resize or an insert, and starts load_and_insert_image if not;
\* after every photo, built or skipped, num_processed is one higher, the
\* progress counter is set to ceil(100 * num_processed / num_images) and
\* one user event is sent.
C17_PerPhotoStep ==
    /\ [](\A t \in Spawned :
            /\ Len(threads[t].written) = threads[t].num_processed
            /\ \A j \in 1 .. Len(threads[t].written) :
                  threads[t].written[j] = CeilPercent(j, NumImages)
            /\ threads[t].pc \in { "photo_exists", "done" } =>
                  /\ threads[t].num_processed = threads[t].pos
                  /\ threads[t].sent = threads[t].pos)
    /\ [][ \A t \in Threads :
              /\ (threads[t].pc = "photo_exists_locked"
                    /\ threads'[t].pc \notin { "photo_exists_locked", "failed" }) =>
                    /\ photos' = photos
                    /\ threads'[t].pc =
                          IF RowsOfKey(photos, CurrentName(t), threads[t].size) # {}
                          THEN "progress" ELSE "load_image"
              /\ (threads[t].pc = "progress" /\ threads'[t].pc # "progress") =>
                    /\ threads'[t].num_processed = threads[t].num_processed + 1
                    /\ progress_percentage' =
                          CeilPercent(threads[t].num_processed + 1, NumImages)
              /\ threads'[t].sent # threads[t].sent =>
                    /\ threads'[t].sent = threads[t].sent + 1
                    /\ threads[t].num_processed = threads[t].sent + 1 ]_vars

\* a pass over three photos is done: it built two photos and skipped the
\* one the UI thread had inserted before, wrote 34, 67 and 100 and sent
\* three events
C17_Witness ==
    /\ threads[1].pc = "done"
    /\ threads[1].written = << 34, 67, 100 >>
    /\ threads[1].sent = 3
    /\ Len(photos) = 3
    /\ photos[1].name = jpg_file_name(threads[1].image_index)


\* C18: once a step of a photo has failed in a pass, the pass has ended:
\* it checks, builds and inserts no further photo and does not write the
\* progress counter again; the photo that failed was not counted.
C18_FailureEndsPass ==
    /\ [](\A t \in Threads :
            threads[t].failed_build =>
                /\ threads[t].pc = "failed"
                /\ Len(threads[t].written) = Len(threads[t].visited) - 1)
    /\ [][ \A t \in Threads :
              threads[t].failed_build => threads'[t] = threads[t] ]_vars

\* the first pass failed at its first photo, with a photo left, and has
\* written no progress, while the second pass ran to its end
C18_Witness ==
    /\ threads[1].failed_build
    /\ Len(threads[1].visited) = 1
    /\ threads[1].written = <<>>
    /\ threads[2].pc = "done"

\* a step of a build by the UI thread or by a pass fails in this step
BuildFails ==
    \/ /\ ui_pc \in { "load_image", "insert_image_locked" }
       /\ ui_pc' = "crashed"
    \/ \E t \in Threads :
          /\ threads[t].pc \in { "load_image", "insert_image_locked" }
          /\ threads'[t].pc = "failed"

\* a build by the UI thread or by a pass inserts its row in this step
BuildInserts ==
    \/ /\ ui_pc = "insert_image_locked"
       /\ ui_pc' = "idle"
    \/ \E t \in Threads :
          /\ threads[t].pc = "insert_image_locked"
          /\ threads'[t].pc = "progress"

\* C19: a build that fails at any of its steps (load_image, resize_jpg,
\* insert_image) leaves the table as it was and hands the failure to its
\* caller (the pass ends, the UI thread's unwrap panics); a build changes
\* the table only in the step in which its insert_image succeeds, so a
\* failed build has added nothing, and no row without a blob is written.
C19_NoPartialInsert ==
    /\ [][ /\ BuildFails => photos' = photos
           /\ Len(photos') > Len(photos) => BuildInserts ]_vars
    /\ [](\A i \in 1 .. Len(photos) : photos[i].resized # None)

\* a pass built its first photo and failed at its second: the table holds
\* the first photo's row and nothing of the second
C19_Witness ==
    \E t \in Threads :
        /\ threads[t].failed_build
        /\ Len(threads[t].visited) = 2
        /\ Count(photos, jpg_file_name(threads[t].visited[1]), threads[t].size) = 1
        /\ Count(photos, jpg_file_name(threads[t].visited[2]), threads[t].size) = 0
        /\ Len(photos) = 1


\* on_resize runs in this step
Resized ==
    \/ screen_resolution' # screen_resolution
    \/ \E t \in Threads : threads[t].pc = "unspawned" /\ threads'[t].pc # "unspawned"

\* C20: a build a pass has started is not cut short by a resolution change:
\* on_resize leaves a pass that is building as it is, and the pass's next
\* steps carry the build on until insert_image has put the row, blob
\* included, into the table (or the build fails by itself); no row
\* without a blob is written.
C20_BuildRunsToCompletion ==
    /\ [][ \A t \in Threads :
              /\ (Resized /\ Building(t)) => threads'[t] = threads[t]
              /\ (Building(t) /\ threads'[t] # threads[t]) =>
                    \/ threads'[t].pc \in { "load_image", "insert_image",
                                            "insert_image_locked" }
                    \/ threads'[t].pc = "failed"
                    \/ /\ threads'[t].pc = "progress"
                       /\ Len(photos') = Len(photos) + 1
                       /\ KeyMatches(photos'[Len(photos')], CurrentName(t),
                                     threads[t].size)
                       /\ photos'[Len(photos')].resized # None ]_vars
    /\ [](\A i \in 1 .. Len(photos) : photos[i].resized # None)

\* a pass has just inserted the row of a build during which a newer
\* resolution arrived
C20_Witness ==
    \E t \in Threads :
        /\ threads[t].pc = "progress"
        /\ Newer(t)
        /\ ~threads[t].newer_at_build
        /\ screen_resolution # threads[t].size
        /\ Len(photos) >= 1
        /\ KeyMatches(photos[Len(photos)], CurrentName(t), threads[t].size)

\* the lookup of on_draw, RenderState::Full, is about to report absent
UiMiss ==
    /\ ui_pc = "try_get_image_from_db_locked"
    /\ try_get_image_from_db(photos, ui_name, screen_resolution) = None

\* C21: the draw call whose lookup finds no cached bytes for the current
\* photo and resolution returns only after the build for that photo has been
\* inserted, with the render state Full and the built image displayed.
C21_BuildWithinMissDraw ==
    [][ UiMiss /\ ui_pc' = "idle" =>
            /\ state' = "Full"
            /\ image' = Some(resize_jpg(load_image(ui_name), screen_resolution))
            /\ photo_exists(photos', ui_name, screen_resolution) ]_vars

\* the UI thread is inside the load_and_insert_image of on_draw
UiBuilding == ui_pc \in { "load_image", "insert_image", "insert_image_locked" }

\* C22: a step of the foreground build changes neither the progress counter
\* nor any field of a background pass (walk position, completed count) nor
\* the redraw sender; the store changes at most by one appended row, for the
\* photo and resolution of the build.
C22_ForegroundLeavesPass ==
    [][ UiBuilding /\ ui_pc' # ui_pc /\ ui_pc' # "crashed" =>
            /\ progress_percentage' = progress_percentage
            /\ threads' = threads
            /\ user_event_sender' = user_event_sender
            /\ \/ photos' = photos
               \/ /\ Len(photos') = Len(photos) + 1
                  /\ SubSeq(photos', 1, Len(photos)) = photos
                  /\ KeyMatches(photos'[Len(photos')], ui_name, screen_resolution)
      ]_vars

\* no key was pressed, the pass has processed one photo of two and written
\* 50, and the store holds two rows: one of them is the foreground's
C22_Witness ==
    /\ keys = 0
    /\ ui_pc = "idle" /\ state = "Full" /\ image # None
    /\ threads[1].pc = "photo_exists" /\ threads[1].num_processed = 1
    /\ threads[1].pos = 1
    /\ progress_percentage = 50
    /\ Len(photos) = 2
    /\ \A i \in 1 .. Len(photos) : photos[i].is_starred = NotStarred

\* get_or_create_db has been called on a thumbnails.db that was there, and
\* no statement of it failed for a reason of the file system
OpenedExisting ==
    /\ DbCalled("get_or_create_db")
    /\ db_call[1].file.exists
    /\ db_call[1].io = "ok"

\* C23: opening an existing store keeps its rows iff table photos has the
\* expected columns and its first row exists and is readable with the
\* expected types; otherwise the table is recreated empty with the expected
\* columns; the error of the check itself is never what the caller gets:
\* the call fails only when sqlite::open or create_schema fails.
C23_StartupSelfCheck ==
    /\ OpenedExisting =>
          LET before == db_call[1]
              sound == /\ before.file.table = "expected"
                       /\ before.rows # <<>>
                       /\ 1 \notin before.file.unreadable
          IN  /\ db_call[1].result = Ok(<<>>)
              /\ db_file.exists /\ db_file.table = "expected"
              /\ sound => photos = before.rows
              /\ ~sound => photos = <<>>
    /\ DbCalled("get_or_create_db") =>
          /\ db_call[1].result # Err("schema_is_ok")
          /\ ~db_call[1].result.ok => db_call[1].io # "ok"

\* a file whose first row is unreadable and whose table, with a readable
\* second row, has been recreated empty
C23_Witness ==
    /\ OpenedExisting
    /\ db_call[1].file.table = "expected"
    /\ Len(db_call[1].rows) = 2
    /\ db_call[1].file.unreadable = { 1 }
    /\ photos = <<>>
    /\ db_call[1].result = Ok(<<>>)

\* C23 as stated: the rows are kept iff the table has the expected columns
\* and at least one row that is readable with the expected types.
C23_KeepsIffSomeReadableRow ==
    /\ OpenedExisting =>
          LET before == db_call[1]
              sound == /\ before.file.table = "expected"
                       /\ \E i \in 1 .. Len(before.rows) :
                              i \notin before.file.unreadable
          IN  /\ sound => photos = before.rows
              /\ ~sound => photos = <<>>
    /\ DbCalled("get_or_create_db") =>
          db_call[1].result # Err("schema_is_ok")

\* load_image has returned for a file whose metadata was `metadata`
Loaded(metadata) ==
    /\ DbCalled("load_image")
    /\ db_call[1].result # None
    /\ db_call[1].metadata = metadata

\* C24: load_image turns the decoded picture by 90 degrees for orientation
\* 6, by 180 for 3 and by 270 for 8, swapping width and height for 6 and 8;
\* for every other value, no orientation field or a metadata error it
\* returns the decoded picture as it is; in all cases it returns Ok.
C24_OrientationCorrection ==
    DbCalled("load_image") /\ db_call[1].result # None =>
        LET img == db_call[1].decoded
            metadata == db_call[1].metadata
            result == db_call[1].result[1]
            turned(deg, w, h) == result = Ok([ w |-> w, h |-> h, turn |-> deg ])
        IN  /\ result.ok
            /\ metadata = Ok([ orientation |-> Some(6) ]) => turned(90, img.h, img.w)
            /\ metadata = Ok([ orientation |-> Some(3) ]) => turned(180, img.w, img.h)
            /\ metadata = Ok([ orientation |-> Some(8) ]) => turned(270, img.h, img.w)
            /\ metadata \notin { Ok([ orientation |-> Some(v) ]) : v \in { 3, 6, 8 } }
                  => result = Ok(img)

\* a picture wider than high came back higher than wide for orientation 6
C24_Witness ==
    /\ Loaded(Ok([ orientation |-> Some(6) ]))
    /\ db_call[1].decoded.w > db_call[1].decoded.h
    /\ db_call[1].result[1].value.w < db_call[1].result[1].value.h
    /\ db_call[1].result[1].value.turn = 90

\* Resize events against the passes they start, the window not being
\* drawn.  The scheduler runs every spawned thread that can take a step.
NextPasses ==
    \/ \E size_pixels \in Resolutions : on_resize(size_pixels, Threads)
    \/ \E t \in Threads : BgNext(t)

FairPasses ==
    /\ InitFirst /\ [][NextPasses]_vars
    /\ \A t \in Threads : WF_vars(BgNext(t))

\* a build of some pass has failed, or the process has ended
Halted == ~Alive \/ \E t \in Threads : threads[t].failed_build

\* C25: unless a build fails or the process ends, every background pass
\* that was started runs to its end, and from some point on the progress
\* counter is 100 for good, also with two passes started by two resize
\* events.
C25_FillingTerminates ==
    /\ \A t \in Threads : Active(t) ~> (threads[t].pc = "done" \/ Halted)
    /\ <>[](progress_percentage = 100 \/ Halted)

\* two passes for different sizes have both ended without a failure, each
\* has written 50 and then 100, and the counter is 100
C25_Witness ==
    /\ ~Halted
    /\ \A t \in Threads :
          threads[t].pc = "done" /\ threads[t].written = << 50, 100 >>
    /\ threads[1].size # threads[2].size
    /\ progress_percentage = 100

\* the insert_image of the foreground build returns
UiInserts == ui_pc = "insert_image_locked" /\ ui_pc' = "idle"

\* C26: the foreground build inserts a row only for the photo and the
\* resolution whose lookup reported absent and put the renderer into
\* LoadingFull, whatever keys and resize events arrive in between.
C26_ForegroundBuildsLookedUpKey ==
    [][ UiInserts => ui_miss = Some(Key(ui_name, screen_resolution)) ]_vars

\* all rows of `name` carry the same is_starred
SameStar(rows, name) ==
    \A i, j \in 1 .. Len(rows) :
        rows[i].name = name /\ rows[j].name = name
            => rows[i].is_starred = rows[j].is_starred

\* on_key_down, Space: update_image_is_starred returns to the handler
UiStars == ui_pc = "update_image_is_starred_locked" /\ ui_pc' = "idle"

\* C27: when the Space handler's update_image_is_starred has returned, all
\* rows of the photo shown carry the same is_starred; the rows of a name
\* come to differ only by an insert_image that appends an unstarred row for
\* a name that has a starred row, and stay so until the next update for it.
C27_StarFlagsDivergeOnlyByInsert ==
    [][ /\ UiStars => SameStar(photos', ui_name)
        /\ \A i \in 1 .. NumImages :
              LET name == image_file_names[i]
              IN  SameStar(photos, name) /\ ~SameStar(photos', name) =>
                    /\ photos' = Append(photos, photos'[Len(photos')])
                    /\ photos'[Len(photos')].name = name
                    /\ photos'[Len(photos')].is_starred = NotStarred
                    /\ \E k \in 1 .. Len(photos) :
                          photos[k].name = name /\ photos[k].is_starred = 1
      ]_vars

\* a starred photo cached for a second resolution: its rows differ
C27_Witness ==
    \E i, j \in 1 .. Len(photos) :
        /\ photos[i].name = photos[j].name
        /\ photos[i].x_res # photos[j].x_res
        /\ photos[i].is_starred = 1
        /\ photos[j].is_starred = NotStarred

\* C27 as stated: at every reachable state all rows that share a name carry
\* the same is_starred.
C27_StarFlagsUniform ==
    \A i \in 1 .. NumImages : SameStar(photos, image_file_names[i])

\* update_cache_image has stored the percentage of a counted photo
Counted == DbCalled("update_cache_image") /\ db_call[1].percentage # None

\* C28: the value a pass stores after c of N photos is within 1..100 and
\* the indicator is drawn iff it is below 100; it is 100 iff fewer than one
\* hundredth of the photos is left, 100 * (N - c) < N, which for N <= 100
\* means c = N.
C28_ProgressHundred ==
    Counted =>
        LET c == db_call[1].num_processed
            N == db_call[1].num_images
            p == db_call[1].percentage[1]
        IN  /\ p \in 1 .. 100
            /\ db_call[1].drawn = Some(p < 100)
            /\ p = 100 <=> 100 * (N - c) < N
            /\ N <= 100 => (p = 100 <=> c = N)

\* 100 of 101 photos are processed: the value is 100 and the indicator is
\* no longer drawn
C28_Witness ==
    /\ Counted
    /\ db_call[1].num_images = 101
    /\ db_call[1].num_processed = 100
    /\ db_call[1].percentage = Some(100)
    /\ db_call[1].drawn = Some(FALSE)

\* C28 as stated: for every N >= 1 the value is within 1..100 and is 100
\* iff c = N, so the indicator is drawn until the last photo is processed.
C28_HundredOnlyAtEnd ==
    Counted =>
        LET c == db_call[1].num_processed
            N == db_call[1].num_images
            p == db_call[1].percentage[1]
        IN  /\ p \in 1 .. 100
            /\ p = 100 <=> c = N
            /\ db_call[1].drawn = Some(c < N)

\* Two resize events reporting the same display resolution, the window
\* being drawn while the two passes run.  Every thread that can take a step
\* is scheduled, and the UI thread carries on the callback it is inside of.
NextLocks ==
    \/ on_resize([x |-> 1920, y |-> 1080], Threads)
    \/ UiSteps
    \/ \E t \in Threads : BgNext(t)

FairLocks ==
    /\ InitFirst /\ [][NextLocks]_vars
    /\ \A t \in Threads : WF_vars(BgNext(t))
    /\ WF_vars(UiLockConnection)
    /\ WF_vars(UiTryGetImage \/ UiLoadAndResize \/ UiInsertImage)

\* thread t is blocked in connection.lock() or user_event_sender.lock()
BgWaiting(t) ==
    \/ threads[t].pc \in { "photo_exists", "insert_image" } /\ ~can_lock(connection)
    \/ threads[t].pc = "send_event" /\ ~can_lock(user_event_sender)

\* where a thread that holds a guard is: inside the db function, or at the
\* send_event, that took it
HoldsInsideCall ==
    /\ \A t \in connection \cap Threads :
          threads[t].pc \in { "photo_exists_locked", "insert_image_locked" }
    /\ UiThread \in connection =>
          ui_pc \in { "try_get_image_from_db_locked", "insert_image_locked" }
    /\ \A t \in user_event_sender :
          t \in Threads /\ threads[t].pc = "send_event_locked"

\* C29: no thread holds the connection lock and the sender lock at once; a
\* thread that holds one of them is inside the call that took it, which
\* returns without taking another lock; and while the process runs, a
\* thread blocked on a lock gets it.
C29_DeadlockFree ==
    /\ [](connection \cap user_event_sender = {})
    /\ []HoldsInsideCall
    /\ \A t \in Threads : BgWaiting(t) ~> (~BgWaiting(t) \/ ~Alive)
    /\ (UiWaiting /\ ~can_lock(connection)) ~> (~UiWaiting \/ ~Alive)

\* one pass holds the sender lock, the other holds the connection lock and
\* the UI thread is blocked on the connection lock
C29_Witness ==
    /\ user_event_sender = { 1 }
    /\ connection = { 2 }
    /\ UiWaiting

\* on_resize has run: it stored another resolution or spawned a thread
Resizes ==
    \/ screen_resolution' # screen_resolution
    \/ \E t \in Threads : threads[t].pc = "unspawned" /\ threads'[t].pc # "unspawned"

\* the UI thread is inside a store lookup, a build or an export of on_draw
UiDrawing ==
    ui_pc \in { "try_get_image_from_db", "try_get_image_from_db_locked",
                "load_image", "insert_image", "insert_image_locked",
                "get_starred_image_names", "get_starred_image_names_locked" }

\* C30: a resize event starts a background pass and clears the displayed
\* image iff the reported width is greater than 800; for a width of 800 or
\* less it changes the stored screen resolution and nothing else; and while
\* the stored width is 800 or less on_draw does no lookup and no build.
C30_ResolutionGate ==
    /\ [](screen_resolution.x <= 800 => ~UiDrawing)
    /\ [][ Resizes =>
            IF screen_resolution'.x > 800
            THEN /\ \E t \in Threads :
                      /\ threads[t].pc = "unspawned"
                      /\ threads' = [ threads EXCEPT ![t] =
                             spawn_update_cache(image_index, screen_resolution') ]
                 /\ image' = None
            ELSE UNCHANGED << image_file_names, image_index, image, state,
                              is_starred, ui_pc, keys, progress_percentage,
                              connection, user_event_sender, photos, threads >>
         ]_vars

\* the window went back to 800x600 while a pass is running: the image that
\* was displayed is still set and the UI thread is idle
C30_Witness ==
    /\ screen_resolution = DefaultResolution
    /\ image # None
    /\ Active(1)
    /\ ui_pc = "idle"

\* the index i moved cyclically by d in a list of n photos
Cyclic(i, d, n) == (i + d + n) % n

\* C31: while the event loop runs the list is not empty and the current
\* index is within 0..N-1, before and after every Left and Right key, which
\* move it cyclically by one; the index of an Images stays within its list
\* under next and prev, next from N-1 gives 0 and prev from 0 gives N-1, and
\* prev undoes next and next undoes prev.
C31_NavigationIndex ==
    /\ [](ui_pc = "idle" => NumImages >= 1 /\ image_index \in 0 .. NumImages - 1)
    /\ [](images.index \in 0 .. Len(images.inner) - 1)
    /\ [][ image_index' # image_index =>
              image_index' \in { Cyclic(image_index, 1, NumImages),
                                 Cyclic(image_index, -1, NumImages) } ]_vars
    /\ [][ db_call' # db_call /\ db_call'[1].op = "next" =>
              /\ images'.index = Cyclic(images.index, 1, Len(images.inner))
              /\ images.index = Len(images.inner) - 1 => images'.index = 0
              /\ Images_prev(images') = images ]_vars
    /\ [][ db_call' # db_call /\ db_call'[1].op = "prev" =>
              /\ images'.index = Cyclic(images.index, -1, Len(images.inner))
              /\ images.index = 0 => images'.index = Len(images.inner) - 1
              /\ Images_next(images') = images ]_vars

\* next has wrapped from the last of three photos to the first, and a
\* Left or Right key has been handled in a folder of two photos
C31_Witness ==
    /\ DbCalled("next")
    /\ Len(images.inner) = 3
    /\ db_call[1].before.index = 2
    /\ images.index = 0
    /\ ui_pc = "idle" /\ keys = 1 /\ NumImages = 2

\* next_starred or prev_starred has been called
StarredCall ==
    db_call # None /\ db_call[1].op \in { "next_starred", "prev_starred" }

\* C32: next_starred and prev_starred return after at most N turns of
\* their loop; with no starred photo the index is unchanged; otherwise the
\* index ends on the first starred photo met stepping cyclically forward
\* (next_starred) or backward (prev_starred) from the current one, which is
\* the current one itself when no other photo is starred.
C32_StarredNavigation ==
    StarredCall =>
        LET b == db_call[1].before
            N == Len(b.inner)
            d == IF db_call[1].op = "next_starred" THEN 1 ELSE -1
            at(k) == Cyclic(b.index, d * k, N)
            starred(i) == b.inner[i + 1].is_starred
        IN  /\ images.inner = b.inner
            /\ db_call[1].running => db_call[1].steps < N
            /\ ~db_call[1].running =>
                  IF \A i \in 0 .. N - 1 : ~starred(i)
                  THEN images = b /\ db_call[1].steps = 0
                  ELSE /\ \E k \in 1 .. N :
                            /\ db_call[1].steps = k
                            /\ images.index = at(k)
                            /\ starred(at(k))
                            /\ \A j \in 1 .. k - 1 : ~starred(at(j))
                       /\ (\A i \in 0 .. N - 1 : starred(i) <=> i = b.index)
                              => images.index = b.index

\* prev_starred has gone round a list of three photos and come back to
\* the current one, the only starred photo
C32_Witness ==
    /\ DbCalled("prev_starred")
    /\ ~db_call[1].running
    /\ Len(images.inner) = 3
    /\ db_call[1].steps = 3
    /\ images.index = 1
    /\ \A i \in 1 .. 3 : images.inner[i].is_starred <=> i = 2

====
